---- MODULE Spec2Model ----
(***************************************************************************)
(* A model of sentencer (src/src/main.rs): OdtParser::parse_file, the      *)
(* markup event loop of OdtParser::extract_text_from_xml and the sentence  *)
(* segmenter OdtParser::split_into_sentences.                              *)
(*                                                                         *)
(* Strings are sequences of one-character strings.  Offsets into a string  *)
(* are 0-based, as in the source; a slice is a record [off, len].          *)
(***************************************************************************)
EXTENDS Integers, Sequences, FiniteSets, TLC

VARIABLES
    pc,               \* position in parse_file / extract_text_from_xml / split_into_sentences
    scripted,         \* TRUE: content.xml is a fixed document; FALSE: any token may come next
    rest,             \* markup tokens of a fixed document that the reader has not consumed yet
    doc,              \* markup tokens the reader has consumed so far
    stack,            \* the reader's open element names (quick_xml checks end names against it)
    in_text_element,  \* main.rs:266
    text_content,     \* main.rs:264
    text,             \* the &str handed to split_into_sentences (main.rs:29, 302)
    cleaned_text,     \* main.rs:303-304
    parts,            \* main.rs:306, slices of cleaned_text
    i,                \* main.rs:309, index of the enumerate loop
    sentences,        \* main.rs:308
    result,           \* what the call returned: [kind, error, sentences]
    ran,              \* history: the steps of the call that have run, in order
    failures,         \* history: the failures that have occurred, in order
    calls,            \* history: how each earlier call of parse_file on this parser ended
    current_index,    \* main.rs:45
    total_sentences,  \* main.rs:46
    has_changes,      \* main.rs:47
    input,            \* main.rs:59, the command of the iteration just handled
    eof,              \* stdin is exhausted: every further read_line returns no bytes
    new_text,         \* main.rs:243, the line edit_sentence has read for the edit
                      \* just handled
    lines,            \* main.rs:181
    current_line,     \* main.rs:182
    words,            \* main.rs:184, the words text.split_whitespace() has yet to yield
    width             \* main.rs:180

\* the state of the viewer (interactive_mode, wrap_text) and the call count
otherVars == <<calls, current_index, total_sentences, has_changes, input, eof,
               new_text, lines, current_line, words, width>>

vars == <<pc, scripted, rest, doc, stack, in_text_element, text_content, text,
          cleaned_text, parts, i, sentences, result, ran, failures, otherVars>>

(***************************************************************************)
(* Bounds of the model.                                                    *)
(***************************************************************************)
MaxLen == 6        \* longest enumerated input text of split_into_sentences
MaxEvents == 4     \* most markup tokens of an enumerated content.xml
MaxDepth == 2      \* deepest element nesting of an enumerated content.xml
MaxCalls == 3      \* most calls of parse_file on one parser
MaxSentences == 3  \* most sentences of a list handed to interactive_mode
MaxWrapLen == 6    \* longest enumerated text of wrap_text
MaxWidth == 3      \* widest enumerated width of wrap_text

(***************************************************************************)
(* Characters.                                                             *)
(***************************************************************************)
\* char::is_whitespace / regex \s, restricted to the characters of the model
IsWhitespace(c) == c \in {" ", "\n", "\t"}

\* the class [.!?] of sentence_regex
IsPunct(c) == c \in {".", "!", "?"}

RECURSIVE TrimStart(_)
TrimStart(s) ==
    IF s # <<>> /\ IsWhitespace(Head(s)) THEN TrimStart(Tail(s)) ELSE s

RECURSIVE TrimEnd(_)
TrimEnd(s) ==
    IF s # <<>> /\ IsWhitespace(s[Len(s)])
    THEN TrimEnd(SubSeq(s, 1, Len(s) - 1))
    ELSE s

\* str::trim
Trim(s) == TrimEnd(TrimStart(s))

\* &s[a..b], 0-based and end-exclusive
Slice(s, a, b) == SubSeq(s, a + 1, b)

\* the slice of s that a [off, len] record stands for
SliceText(s, part) == Slice(s, part.off, part.off + part.len)

(***************************************************************************)
(* split_into_sentences, main.rs:302-330.                                  *)
(***************************************************************************)
\* text.trim().replace('\n', " ")
ReplaceNewlines(s) == [k \in 1..Len(s) |-> IF s[k] = "\n" THEN " " ELSE s[k]]

CollapsePairs(s) ==
    LET ws(k) == IsWhitespace(s[k])
        before(k) == {m \in 0..(k - 1) : m = 0 \/ ~ws(m)}
        run(k) == k - (CHOOSE m \in before(k) : \A n \in before(k) : n <= m)
        K == {k \in 1..Len(s) : ~ws(k) \/ run(k) % 2 = 1}
        at(j) == CHOOSE k \in K : Cardinality({m \in K : m <= k}) = j
    IN  [j \in 1..Cardinality(K) |-> IF ws(at(j)) THEN " " ELSE s[at(j)]]

\* Regex::new(r"\s+").replace_all(s, " ")
RECURSIVE CollapseWhitespace(_)
CollapseWhitespace(s) ==
    IF s = <<>> THEN <<>>
    ELSE IF IsWhitespace(Head(s))
         THEN <<" ">> \o CollapseWhitespace(TrimStart(s))
         ELSE <<Head(s)>> \o CollapseWhitespace(Tail(s))

\* main.rs:303-304
CleanText(t) == CollapseWhitespace(ReplaceNewlines(Trim(t)))

NoMatch == [found |-> FALSE, start |-> 0, end |-> 0]

\* first offset >= p of s that holds no [.!?]
RECURSIVE PunctEnd(_, _)
PunctEnd(s, p) ==
    IF p < Len(s) /\ IsPunct(s[p + 1]) THEN PunctEnd(s, p + 1) ELSE p

\* first offset >= p of s that holds no whitespace
RECURSIVE WhitespaceEnd(_, _)
WhitespaceEnd(s, p) ==
    IF p < Len(s) /\ IsWhitespace(s[p + 1]) THEN WhitespaceEnd(s, p + 1) ELSE p

\* the match of [.!?]+\s+ that starts at offset p of s, both repetitions greedy
MatchAt(s, p) ==
    LET q == PunctEnd(s, p)
        e == WhitespaceEnd(s, q)
    IN  IF q > p /\ e > q
        THEN [found |-> TRUE, start |-> p, end |-> e]
        ELSE NoMatch

\* sentence_regex.find_at(s, start): the leftmost match at an offset >= start
RECURSIVE FindAt(_, _)
FindAt(s, start) ==
    IF start >= Len(s) THEN NoMatch
    ELSE IF MatchAt(s, start).found THEN MatchAt(s, start)
    ELSE FindAt(s, start + 1)

\* sentence_regex.split(s) from offset last; the slice after the last match
\* is yielded even when it is empty
RECURSIVE SplitFrom(_, _)
SplitFrom(s, last) ==
    LET m == FindAt(s, last)
    IN  IF m.found
        THEN <<[off |-> last, len |-> m.start - last]>> \o SplitFrom(s, m.end)
        ELSE <<[off |-> last, len |-> Len(s) - last]>>

\* main.rs:306
RegexSplit(s) == SplitFrom(s, 0)

\* main.rs:310
TrimPart(s, part) == Trim(SliceText(s, part))

KeepAnyPart(trimmed) == TRUE

\* main.rs:311
KeepPart(trimmed) == trimmed # <<>>

\* main.rs:312, k is the 0-based index of enumerate()
HasFollowingPart(k, ps) == k < Len(ps) - 1

\* main.rs:313-314
NextStart(part) == part.off + part.len

FindPunctFromZero(s, next_start) == FindAt(s, 0)

\* main.rs:315-316
FindPunct(s, next_start) == FindAt(s, next_start)

PunctUntrimmed(s, m) == Slice(s, m.start, m.end)

\* main.rs:318
PunctOf(s, m) == Trim(Slice(s, m.start, m.end))

FinalSentenceDotted(trimmed) == trimmed \o <<".">>

\* main.rs:324, the sentence of the last part
FinalSentence(trimmed) == trimmed

\* main.rs:310-326, one iteration of the loop over parts: the sentences after it
PushPart(s, ps, k, acc) ==
    LET part == ps[k + 1]
        trimmed == TrimPart(s, part)
    IN  IF KeepPart(trimmed)
        THEN IF HasFollowingPart(k, ps)
             THEN LET m == FindPunct(s, NextStart(part))
                  IN  IF m.found
                      THEN Append(acc, trimmed \o PunctOf(s, m))
                      ELSE Append(acc, trimmed)
             ELSE Append(acc, FinalSentence(trimmed))
        ELSE acc

\* the whole of split_into_sentences, main.rs:302-330
RECURSIVE LoopFrom(_, _, _, _)
LoopFrom(s, ps, k, acc) ==
    IF k >= Len(ps) THEN acc ELSE LoopFrom(s, ps, k + 1, PushPart(s, ps, k, acc))

SplitIntoSentences(t) ==
    LET s == CleanText(t) IN LoopFrom(s, RegexSplit(s), 0, <<>>)

(***************************************************************************)
(* Results of a call.                                                      *)
(***************************************************************************)
NoResult == [kind |-> "none", error |-> "", sentences |-> <<>>]
OkResult(ss) == [kind |-> "Ok", error |-> "", sentences |-> ss]
ErrResult(e) == [kind |-> "Err", error |-> e, sentences |-> <<>>]

(***************************************************************************)
(* Input texts of split_into_sentences.                                    *)
(***************************************************************************)
Chars == {"a", ".", "!", " ", "\n"}

SeqsUpTo(S, n) == UNION {[1..k -> S] : k \in 0..n}

\* tests::test_sentence_splitting, main.rs:553
TextThree ==
    <<"T", "h", "i", "s", " ", "i", "s", " ", "s", "e", "n", "t", "e", "n",
      "c", "e", " ", "o", "n", "e", ".", " ", "T", "h", "i", "s", " ", "i",
      "s", " ", "s", "e", "n", "t", "e", "n", "c", "e", " ", "t", "w", "o",
      "!", " ", "A", "n", "d", " ", "t", "h", "i", "s", " ", "i", "s", " ",
      "s", "e", "n", "t", "e", "n", "c", "e", " ", "t", "h", "r", "e", "e",
      "?">>

\* tests::test_complex_punctuation, main.rs:572
TextComplex ==
    <<"W", "h", "a", "t", "?", "!", " ", "R", "e", "a", "l", "l", "y", ".",
      ".", ".", " ", "Y", "e", "s", ".", " ", "N", "o", " ", "d", "o", "u",
      "b", "t", " ", "a", "b", "o", "u", "t", " ", "i", "t", "!", "!", "!",
      " ", "A", "b", "s", "o", "l", "u", "t", "e", "l", "y", ".">>

TextInputs == SeqsUpTo(Chars, MaxLen) \cup {TextThree, TextComplex}

(***************************************************************************)
(* The steps of split_into_sentences.                                      *)
(***************************************************************************)
extractVars == <<scripted, rest, doc, stack, in_text_element, text_content, otherVars>>

\* main.rs:303-304
Clean ==
    /\ pc = "clean"
    /\ cleaned_text' = CleanText(text)
    /\ pc' = "split"
    /\ ran' = Append(ran, "clean")
    /\ UNCHANGED <<extractVars, text, parts, i, sentences, result, failures>>

\* main.rs:306-308
Split ==
    /\ pc = "split"
    /\ parts' = RegexSplit(cleaned_text)
    /\ sentences' = <<>>
    /\ i' = 0
    /\ pc' = "loop"
    /\ ran' = Append(ran, "split")
    /\ UNCHANGED <<extractVars, text, cleaned_text, result, failures>>

\* main.rs:309-327, one iteration
LoopPart ==
    /\ pc = "loop"
    /\ i < Len(parts)
    /\ sentences' = PushPart(cleaned_text, parts, i, sentences)
    /\ i' = i + 1
    /\ UNCHANGED <<pc, extractVars, text, cleaned_text, parts, result, ran, failures>>

\* main.rs:329 and main.rs:33
ReturnSentences ==
    /\ pc = "loop"
    /\ i = Len(parts)
    /\ result' = OkResult(sentences)
    /\ pc' = "done"
    /\ ran' = Append(ran, "return")
    /\ UNCHANGED <<extractVars, text, cleaned_text, parts, i, sentences, failures>>

\* the viewer has not started and the parser has made no earlier call
OtherIdle ==
    /\ calls = <<>>
    /\ current_index = 0
    /\ total_sentences = 0
    /\ has_changes = FALSE
    /\ input = <<>>
    /\ eof = FALSE
    /\ new_text = <<>>
    /\ lines = <<>>
    /\ current_line = <<>>
    /\ words = <<>>
    /\ width = 0

\* split_into_sentences called on each input text
InitSplit ==
    /\ pc = "clean"
    /\ text \in TextInputs
    /\ scripted = TRUE
    /\ rest = <<>>
    /\ doc = <<>>
    /\ stack = <<>>
    /\ in_text_element = FALSE
    /\ text_content = <<>>
    /\ cleaned_text = <<>>
    /\ parts = <<>>
    /\ i = 0
    /\ sentences = <<>>
    /\ result = NoResult
    /\ ran = <<>>
    /\ failures = <<>>
    /\ OtherIdle

NextSplit == Clean \/ Split \/ LoopPart \/ ReturnSentences

SpecSplit == InitSplit /\ [][NextSplit]_vars

(***************************************************************************)
(* Boundary markers and candidate segments, stated over the normalized     *)
(* text without the regex scan: a marker is a maximal run of . ! ?         *)
(* followed by whitespace, and the whitespace run after it.                *)
(***************************************************************************)
\* p is the offset of the first character of a maximal run of . ! ?
IsRunStart(s, p) == IsPunct(s[p + 1]) /\ (p = 0 \/ ~IsPunct(s[p]))

\* q is the offset just after the run of . ! ? that starts at p
IsRunEnd(s, p, q) ==
    /\ \A k \in p..(q - 1) : IsPunct(s[k + 1])
    /\ q = Len(s) \/ ~IsPunct(s[q + 1])

\* e is the offset just after the whitespace run that starts at q
IsGapEnd(s, q, e) ==
    /\ \A k \in q..(e - 1) : IsWhitespace(s[k + 1])
    /\ e = Len(s) \/ ~IsWhitespace(s[e + 1])

RunEndOf(s, p) == CHOOSE q \in (p + 1)..Len(s) : IsRunEnd(s, p, q)

GapEndOf(s, q) == CHOOSE e \in q..Len(s) : IsGapEnd(s, q, e)

\* the boundary markers of s as records [start, mid, end]: punctuation in
\* [start, mid), whitespace in [mid, end)
MarkerSet(s) ==
    {[start |-> p, mid |-> RunEndOf(s, p), end |-> GapEndOf(s, RunEndOf(s, p))] :
        p \in {x \in 0..(Len(s) - 1) :
                 /\ IsRunStart(s, x)
                 /\ GapEndOf(s, RunEndOf(s, x)) > RunEndOf(s, x)}}

\* the markers in text order
RECURSIVE SortMarkers(_)
SortMarkers(ms) ==
    IF ms = {} THEN <<>>
    ELSE LET m == CHOOSE x \in ms : \A y \in ms : x.start <= y.start
         IN  <<m>> \o SortMarkers(ms \ {m})

Markers(s) == SortMarkers(MarkerSet(s))

\* the k-th candidate segment of s, k in 1..N+1 for N markers
Segment(s, k) ==
    LET ms == Markers(s)
        from == IF k = 1 THEN 0 ELSE ms[k - 1].end
        to == IF k = Len(ms) + 1 THEN Len(s) ELSE ms[k].start
    IN  Slice(s, from, to)

\* the punctuation run of the k-th marker
MarkerPunct(s, k) == Slice(s, Markers(s)[k].start, Markers(s)[k].mid)

\* the sentence the k-th segment stands for
SegmentSentence(s, k) ==
    IF k <= Len(Markers(s))
    THEN Trim(Segment(s, k)) \o MarkerPunct(s, k)
    ELSE Trim(Segment(s, k))

RECURSIVE SentencesFrom(_, _)
SentencesFrom(s, k) ==
    IF k > Len(Markers(s)) + 1 THEN <<>>
    ELSE IF Trim(Segment(s, k)) = <<>> THEN SentencesFrom(s, k + 1)
    ELSE <<SegmentSentence(s, k)>> \o SentencesFrom(s, k + 1)

\* one sentence per segment that does not trim to empty, in text order
ExpectedSentences(s) == SentencesFrom(s, 1)

\* s ends with t
EndsWith(s, t) ==
    Len(s) >= Len(t) /\ SubSeq(s, Len(s) - Len(t) + 1, Len(s)) = t

Returned == pc = "done" /\ result.kind = "Ok"

(***************************************************************************)
(* C2: split_into_sentences returns, in text order, one sentence per       *)
(* candidate segment that does not trim to empty; the sentence of a        *)
(* non-final segment is the trimmed segment followed by the punctuation    *)
(* run of the marker after it, and the two test texts give the sentences   *)
(* the tests name.                                                         *)
(***************************************************************************)
SentenceOne ==
    <<"T", "h", "i", "s", " ", "i", "s", " ", "s", "e", "n", "t", "e", "n",
      "c", "e", " ", "o", "n", "e", ".">>

SentenceTwo ==
    <<"T", "h", "i", "s", " ", "i", "s", " ", "s", "e", "n", "t", "e", "n",
      "c", "e", " ", "t", "w", "o", "!">>

SentenceThree ==
    <<"A", "n", "d", " ", "t", "h", "i", "s", " ", "i", "s", " ", "s", "e",
      "n", "t", "e", "n", "c", "e", " ", "t", "h", "r", "e", "e", "?">>

C2_SentencePerSegment ==
    Returned =>
        /\ result.sentences = ExpectedSentences(CleanText(text))
        /\ text = TextThree =>
               result.sentences = <<SentenceOne, SentenceTwo, SentenceThree>>
        /\ text = TextComplex =>
               /\ result.sentences[1] = <<"W", "h", "a", "t", "?", "!">>
               /\ result.sentences[2] = <<"R", "e", "a", "l", "l", "y", ".", ".", ".">>

\* a text with two different punctuation runs has been split
C2_Witness ==
    /\ Returned
    /\ Len(Markers(CleanText(text))) >= 2
    /\ MarkerPunct(CleanText(text), 1) # MarkerPunct(CleanText(text), 2)
    /\ Len(result.sentences) = 3

(***************************************************************************)
(* C7: a text with N boundary markers, no trailing unmatched punctuation   *)
(* and no segment that trims to empty.                                     *)
(***************************************************************************)
NumMarkers == Len(Markers(CleanText(text)))

\* the normalized text does not end in a . ! ? that belongs to no marker
NoTrailingPunct ==
    LET s == CleanText(text) IN s = <<>> \/ ~IsPunct(s[Len(s)])

NoEmptySegment ==
    \A k \in 1..(NumMarkers + 1) : Trim(Segment(CleanText(text), k)) # <<>>

\* every sentence but the last ends in the punctuation of the marker after it
EndInMarkerPunct ==
    \A k \in 1..NumMarkers :
        /\ k <= Len(result.sentences)
        /\ result.sentences[k] # <<>>
        /\ EndsWith(result.sentences[k], MarkerPunct(CleanText(text), k))

\* C7 as stated: N markers give exactly N non-empty sentences
C7_Original ==
    (Returned /\ NoTrailingPunct /\ NoEmptySegment) =>
        /\ Len(result.sentences) = NumMarkers
        /\ EndInMarkerPunct

\* C7 as amended: N markers give exactly N + 1 non-empty sentences, each but
\* the last ending in the punctuation of the marker that follows it, the last
\* being the trimmed final segment
C7_OneMoreThanMarkers ==
    (Returned /\ NoTrailingPunct /\ NoEmptySegment) =>
        /\ Len(result.sentences) = NumMarkers + 1
        /\ EndInMarkerPunct
        /\ \A k \in 1..Len(result.sentences) : result.sentences[k] # <<>>
        /\ result.sentences[NumMarkers + 1] =
               Trim(Segment(CleanText(text), NumMarkers + 1))

\* a text with at least one marker and only non-empty segments has been split
C7_Witness ==
    /\ Returned /\ NoTrailingPunct /\ NoEmptySegment
    /\ NumMarkers >= 1
    /\ Len(result.sentences) = NumMarkers + 1

(***************************************************************************)
(* C8: a text without boundary marker, and the final segment of any text.  *)
(***************************************************************************)
\* the last segment, when it does not trim to empty, is the last sentence,
\* trimmed and with nothing appended
FinalSegmentKept ==
    LET s == CleanText(text)
        last == Trim(Segment(s, NumMarkers + 1))
    IN  last # <<>> =>
            /\ result.sentences # <<>>
            /\ result.sentences[Len(result.sentences)] = last

\* C8 as stated: the one sentence equals the whole trimmed text
C8_Original ==
    Returned =>
        /\ NumMarkers = 0 =>
               result.sentences =
                   IF Trim(text) = <<>> THEN <<>> ELSE <<Trim(text)>>
        /\ FinalSegmentKept

\* C8 as amended: a text without boundary marker yields one sentence, the
\* whole text trimmed and with every whitespace run inside it collapsed to one
\* space, no punctuation added or removed, or no sentence if it trims to
\* empty; the final segment of any text is emitted trimmed, nothing appended
C8_WholeNormalizedText ==
    Returned =>
        /\ NumMarkers = 0 =>
               result.sentences =
                   IF Trim(text) = <<>> THEN <<>> ELSE <<CleanText(text)>>
        /\ FinalSegmentKept

\* a text whose punctuation is all attached to words has been split
C8_Witness ==
    /\ Returned
    /\ NumMarkers = 0
    /\ \E k \in 1..Len(text) : IsPunct(text[k])
    /\ \E k \in 1..Len(text) : IsWhitespace(text[k])
    /\ result.sentences = <<CleanText(text)>>

(***************************************************************************)
(* C9: no sentence is empty or starts or ends with whitespace; a segment   *)
(* that trims to empty contributes nothing, so an empty or whitespace-only *)
(* text yields the empty list.                                             *)
(***************************************************************************)
NonEmptySegments ==
    {k \in 1..(NumMarkers + 1) : Trim(Segment(CleanText(text), k)) # <<>>}

C9_NoEmptySentence ==
    Returned =>
        /\ \A k \in 1..Len(result.sentences) :
               LET s == result.sentences[k]
               IN  s # <<>> /\ ~IsWhitespace(s[1]) /\ ~IsWhitespace(s[Len(s)])
        /\ Len(result.sentences) = Cardinality(NonEmptySegments)
        /\ Trim(text) = <<>> => result.sentences = <<>>

\* an empty segment followed by a marker has been dropped from a text that
\* has sentences
C9_Witness ==
    /\ Returned
    /\ NumMarkers >= 1
    /\ Trim(Segment(CleanText(text), 1)) = <<>>
    /\ Len(result.sentences) >= 1

(***************************************************************************)
(* The markup of content.xml as the tokens quick_xml's Reader cuts it      *)
(* into.  The raw text of a Text token is a sequence of units: a character *)
(* or an entity reference.                                                 *)
(***************************************************************************)
StartTok(n) == [kind |-> "Start", name |-> n, raw |-> <<>>]
EndTok(n) == [kind |-> "End", name |-> n, raw |-> <<>>]
TextTok(r) == [kind |-> "Text", name |-> "", raw |-> r]
\* a declaration, comment, processing instruction, CDATA or empty element
OtherTok == [kind |-> "Other", name |-> "", raw |-> <<>>]
EofTok == [kind |-> "Eof", name |-> "", raw |-> <<>>]
\* markup the reader cannot tokenize
ErrTok == [kind |-> "Err", name |-> "", raw |-> <<>>]

\* the whitespace reader.trim_text(true) strips from a text run, main.rs:262
IsXmlWhitespace(c) == c \in {" ", "\n", "\t", "\r"}

RECURSIVE TrimTextStart(_)
TrimTextStart(r) ==
    IF r # <<>> /\ IsXmlWhitespace(Head(r)) THEN TrimTextStart(Tail(r)) ELSE r

RECURSIVE TrimTextEnd(_)
TrimTextEnd(r) ==
    IF r # <<>> /\ IsXmlWhitespace(r[Len(r)])
    THEN TrimTextEnd(SubSeq(r, 1, Len(r) - 1))
    ELSE r

\* main.rs:262, the text a Text event carries: the raw run without the
\* whitespace at its ends (entity references are not decoded yet)
TrimText(r) == TrimTextEnd(TrimTextStart(r))

\* the entity references BytesText::unescape decodes
KnownEntities == {"&amp;", "&lt;", "&gt;", "&apos;", "&quot;", "&#32;"}

\* entity references BytesText::unescape rejects
UnknownEntities == {"&nbsp;"}

\* main.rs:288, one unit decoded
UnescapeUnit(u) ==
    CASE u = "&amp;" -> "&"
      [] u = "&lt;" -> "<"
      [] u = "&gt;" -> ">"
      [] u = "&apos;" -> "'"
      [] u = "&quot;" -> "\""
      [] u = "&#32;" -> " "
      [] OTHER -> u

\* main.rs:288, e.unescape() is an Err
UnescapeFails(r) == \E k \in 1..Len(r) : r[k] \in UnknownEntities

\* main.rs:288, e.unescape() when it is Ok
Unescape(r) == [k \in 1..Len(r) |-> UnescapeUnit(r[k])]

\* main.rs:271
StartSetsFlag(n) == n \in {"text:p", "text.span", "text.h"}

\* main.rs:277
EndIsBlock(n) == n \in {"text:p", "text.h"}

EndIsSpanNever(n) == FALSE

\* main.rs:281
EndIsSpan(n) == n = "text:span"

\* the event read_event_into returns for a token: an end tag that does not
\* close the innermost open element is an error of the reader
Event(tok) ==
    IF tok.kind = "End" /\ (stack = <<>> \/ stack[Len(stack)] # tok.name)
    THEN ErrTok
    ELSE tok

(***************************************************************************)
(* The documents of the model.                                             *)
(***************************************************************************)
Names == {"text:p", "text:h", "text:span", "text.span", "text.h", "office:text"}

TextRuns ==
    { <<"a", ".">>,
      <<" ", "b", "&amp;", " ">>,
      <<" ">>,
      <<"&nbsp;">> }

Tokens ==
    {StartTok(n) : n \in Names} \cup {EndTok(n) : n \in Names}
        \cup {TextTok(r) : r \in TextRuns} \cup {OtherTok, EofTok, ErrTok}

\* the tokens that can follow the consumed ones in a document of at most
\* MaxEvents tokens, nested at most MaxDepth deep; text runs are maximal, so
\* no two of them are adjacent
Admissible(tok) ==
    CASE tok.kind = "Start" -> Len(doc) < MaxEvents /\ Len(stack) < MaxDepth
      [] tok.kind = "End" ->
            Len(doc) < MaxEvents /\ stack # <<>> /\ stack[Len(stack)] = tok.name
      [] tok.kind = "Text" ->
            Len(doc) < MaxEvents /\ (doc = <<>> \/ doc[Len(doc)].kind # "Text")
      [] tok.kind = "Other" -> Len(doc) < MaxEvents
      [] OTHER -> TRUE

RunFirst ==
    <<"F", "i", "r", "s", "t", " ", "p", "a", "r", "a", "g", "r", "a", "p",
      "h", ".">>

RunSecond ==
    <<"S", "e", "c", "o", "n", "d", " ", "p", "a", "r", "a", "g", "r", "a",
      "p", "h", " ", "w", "i", "t", "h", " ">>

RunInline ==
    <<"i", "n", "l", "i", "n", "e", " ", "t", "e", "x", "t">>

RunDot ==
    <<".">>

RunIndent ==
    <<"\n", " ", " ", " ", " ", " ", " ", " ", " ", " ", " ", " ", " ">>

RunHeading ==
    <<"T", "h", "i", "s", " ", "i", "s", " ", "a", " ", "h", "e", "a", "d",
      "i", "n", "g", ".">>

RunFinal ==
    <<"F", "i", "n", "a", "l", " ", "p", "a", "r", "a", "g", "r", "a", "p",
      "h", " ", "a", "f", "t", "e", "r", " ", "t", "h", "e", " ", "h", "e",
      "a", "d", "i", "n", "g", ".">>

\* <text:p>First paragraph.</text:p><text:p>Second paragraph with
\* <text:span>inline text</text:span>.</text:p>, main.rs:524-525
DocTwoParagraphs ==
    << StartTok("text:p"), TextTok(RunFirst), EndTok("text:p"),
       StartTok("text:p"), TextTok(RunSecond),
       StartTok("text:span"), TextTok(RunInline), EndTok("text:span"),
       TextTok(RunDot), EndTok("text:p") >>

\* the whole xml_content of tests::test_xml_extraction, main.rs:518-528
DocXmlExtraction ==
    << OtherTok, TextTok(<<"\n">>),
       StartTok("office:document-content"), TextTok(RunIndent),
       StartTok("office:body"), TextTok(RunIndent),
       StartTok("office:text"), TextTok(RunIndent),
       StartTok("text:p"), TextTok(RunFirst), EndTok("text:p"),
       TextTok(RunIndent),
       StartTok("text:p"), TextTok(RunSecond),
       StartTok("text:span"), TextTok(RunInline), EndTok("text:span"),
       TextTok(RunDot), EndTok("text:p"), TextTok(RunIndent),
       EndTok("office:text"), TextTok(RunIndent),
       EndTok("office:body"), TextTok(<<"\n">>),
       EndTok("office:document-content") >>

\* a paragraph, a heading and a paragraph, after tests::test_odt_file_parsing,
\* main.rs:427-432
DocHeading ==
    << StartTok("text:p"), TextTok(RunFirst), EndTok("text:p"),
       TextTok(RunIndent),
       StartTok("text:h"), TextTok(RunHeading), EndTok("text:h"),
       TextTok(RunIndent),
       StartTok("text:p"), TextTok(RunFinal), EndTok("text:p") >>

\* a paragraph closed by the wrong end tag
DocMismatch ==
    << StartTok("text:p"), TextTok(RunFirst), EndTok("text:span") >>

\* the fixed documents: the test documents, every truncation of the first
\* one, and an ill-formed one
FixedDocs ==
    {DocTwoParagraphs, DocXmlExtraction, DocHeading, DocMismatch}
        \cup {SubSeq(DocTwoParagraphs, 1, n) : n \in 0..Len(DocTwoParagraphs)}

(***************************************************************************)
(* parse_file, main.rs:20-34, and the event loop of extract_text_from_xml, *)
(* main.rs:257-300.                                                        *)
(***************************************************************************)
splitVars == <<text, cleaned_text, parts, i, sentences>>

\* the step is in the history once, however many iterations it takes
RanStep(step) ==
    IF ran # <<>> /\ ran[Len(ran)] = step THEN ran ELSE Append(ran, step)

\* a step returns Err(e): the ? operator, or the return at main.rs:293
Fail(step, e) ==
    /\ pc' = "failed"
    /\ result' = ErrResult(e)
    /\ failures' = Append(failures, [step |-> step, error |-> e])

\* a step of parse_file before the extraction has succeeded or failed with e
StepOutcome(here, ok, next, e) ==
    /\ ran' = Append(ran, here)
    /\ IF ok
       THEN pc' = next /\ UNCHANGED <<result, failures>>
       ELSE Fail(here, e)
    /\ UNCHANGED <<extractVars, splitVars>>

\* main.rs:21, File::open(file_path)?
OpenFile ==
    /\ pc = "open"
    /\ \E ok \in BOOLEAN : StepOutcome("open", ok, "archive", "Io")

\* main.rs:22-23, ZipArchive::new(reader)?
NewArchive ==
    /\ pc = "archive"
    /\ \E ok \in BOOLEAN : StepOutcome("archive", ok, "by_name", "InvalidArchive")

ByNameIo ==
    /\ pc = "by_name"
    /\ \E ok \in BOOLEAN : StepOutcome("by_name", ok, "read", "Io")

\* main.rs:25, archive.by_name("content.xml")?
ByName ==
    /\ pc = "by_name"
    /\ \E ok \in BOOLEAN : StepOutcome("by_name", ok, "read", "FileNotFound")

\* main.rs:26-27, content_file.read_to_string(&mut content)?
ReadContent ==
    /\ pc = "read"
    /\ \E ok \in BOOLEAN : StepOutcome("read", ok, "extract", "Io")

\* the tokens the reader may find next
NextTokens ==
    IF scripted
    THEN {IF rest = <<>> THEN EofTok ELSE Head(rest)}
    ELSE {tok \in Tokens : Admissible(tok)}

\* the reader has consumed tok and returned event ev
Consume(tok, ev) ==
    /\ pc = "extract"
    /\ tok \in NextTokens
    /\ ev = Event(tok)
    /\ rest' = IF rest = <<>> THEN rest ELSE Tail(rest)
    /\ doc' = Append(doc, ev)
    /\ ran' = RanStep("extract")
    /\ UNCHANGED <<scripted, cleaned_text, parts, i, sentences, otherVars>>

\* main.rs:270-275
OnStart(tok) ==
    /\ tok.kind = "Start"
    /\ Consume(tok, tok)
    /\ stack' = Append(stack, tok.name)
    /\ in_text_element' = IF StartSetsFlag(tok.name) THEN TRUE ELSE in_text_element
    /\ UNCHANGED <<pc, text_content, text, result, failures>>

\* main.rs:276-285
OnEnd(tok) ==
    /\ tok.kind = "End"
    /\ Consume(tok, tok)
    /\ stack' = SubSeq(stack, 1, Len(stack) - 1)
    /\ text_content' =
           IF EndIsBlock(tok.name) THEN Append(text_content, " ") ELSE text_content
    /\ in_text_element' =
           IF EndIsBlock(tok.name) \/ EndIsSpan(tok.name)
           THEN FALSE
           ELSE in_text_element
    /\ UNCHANGED <<pc, text, result, failures>>

\* main.rs:286-291; a run that is all whitespace is no event at all
OnText(tok) ==
    /\ tok.kind = "Text"
    /\ Consume(tok, tok)
    /\ LET e == TrimText(tok.raw)
       IN  IF e # <<>> /\ in_text_element
           THEN IF UnescapeFails(e)
                THEN Fail("extract", "Escape") /\ UNCHANGED text_content
                ELSE /\ text_content' = text_content \o Unescape(e)
                     /\ UNCHANGED <<pc, result, failures>>
           ELSE UNCHANGED <<pc, text_content, result, failures>>
    /\ UNCHANGED <<stack, in_text_element, text>>

\* main.rs:294
OnOther(tok) ==
    /\ tok.kind = "Other"
    /\ Consume(tok, tok)
    /\ UNCHANGED <<pc, stack, in_text_element, text_content, text, result, failures>>

\* main.rs:292 and 299, then main.rs:29-31
OnEof(tok) ==
    /\ tok.kind = "Eof"
    /\ Consume(tok, tok)
    /\ text' = text_content
    /\ pc' = "clean"
    /\ UNCHANGED <<stack, in_text_element, text_content, result, failures>>

OnErrBreak(tok) ==
    /\ Consume(tok, ErrTok)
    /\ text' = text_content
    /\ pc' = "clean"
    /\ failures' = Append(failures, [step |-> "extract", error |-> "Xml"])
    /\ UNCHANGED <<stack, in_text_element, text_content, result>>

\* main.rs:293
OnErr(tok) ==
    /\ Consume(tok, ErrTok)
    /\ Fail("extract", "Xml")
    /\ UNCHANGED <<stack, in_text_element, text_content, text>>

\* parse_file called on a file whose content.xml, if it gets that far, is one
\* of the fixed documents or any document within the bounds
Init ==
    /\ pc = "open"
    /\ scripted \in BOOLEAN
    /\ rest \in (IF scripted THEN FixedDocs ELSE {<<>>})
    /\ doc = <<>>
    /\ stack = <<>>
    /\ in_text_element = FALSE
    /\ text_content = <<>>
    /\ text = <<>>
    /\ cleaned_text = <<>>
    /\ parts = <<>>
    /\ i = 0
    /\ sentences = <<>>
    /\ result = NoResult
    /\ ran = <<>>
    /\ failures = <<>>
    /\ OtherIdle

\* one iteration of the loop at main.rs:268, by the event it reads
StartEvent == \E tok \in NextTokens : OnStart(tok)
EndEvent == \E tok \in NextTokens : OnEnd(tok)
TextEvent == \E tok \in NextTokens : OnText(tok)
OtherEvent == \E tok \in NextTokens : OnOther(tok)
EofEvent == \E tok \in NextTokens : OnEof(tok)
ErrEvent == \E tok \in NextTokens : OnErr(tok)

Next ==
    \/ OpenFile
    \/ NewArchive
    \/ ByName
    \/ ReadContent
    \/ StartEvent
    \/ EndEvent
    \/ TextEvent
    \/ OtherEvent
    \/ EofEvent
    \/ ErrEvent
    \/ Clean
    \/ Split
    \/ LoopPart
    \/ ReturnSentences

Spec == Init /\ [][Next]_vars

(***************************************************************************)
(* Auxiliary definitions of the extraction claims.                         *)
(***************************************************************************)
\* s contains t as a contiguous substring
Contains(s, t) ==
    \E k \in 0..(Len(s) - Len(t)) : SubSeq(s, k + 1, k + Len(t)) = t

\* the event the loop handled last
LastEvent == doc[Len(doc)]

\* the names of the text-bearing elements: paragraph, heading, inline run
TextBearing == {"text:p", "text:h", "text:span"}

\* this step handles an event of the given kind
Handles(kind) ==
    /\ pc = "extract"
    /\ Len(doc') = Len(doc) + 1
    /\ doc'[Len(doc')].kind = kind

\* extract_text_from_xml has returned Ok(text) for the whole document d
Extracted(d) == scripted /\ doc = Append(d, EofTok)

(***************************************************************************)
(* C1: the markup of tests::test_xml_extraction extracts to a text that    *)
(* contains "First paragraph." and "Second paragraph with inline text.",   *)
(* with exactly one space between the two paragraphs and none at the span  *)
(* boundary.  Stated for the bare markup and for the test's whole          *)
(* document.                                                               *)
(***************************************************************************)
TextSecond ==
    <<"S", "e", "c", "o", "n", "d", " ", "p", "a", "r", "a", "g", "r", "a",
      "p", "h", " ", "w", "i", "t", "h", " ", "i", "n", "l", "i", "n", "e",
      " ", "t", "e", "x", "t", ".">>

C1_TwoParagraphs ==
    (Extracted(DocTwoParagraphs) \/ Extracted(DocXmlExtraction)) =>
        /\ Contains(text, RunFirst)
        /\ Contains(text, TextSecond)
        /\ Contains(text, RunFirst \o <<" ">> \o TextSecond)

(***************************************************************************)
(* C3: a text run with no open paragraph, heading or inline-run element    *)
(* around it is never appended to the extracted text.  Stated for the text *)
(* runs that are inside some element and have no element of a text-bearing *)
(* name open in either spelling the extractor compares with (text:span or  *)
(* text.span, text:h or text.h): fewer text runs than the claim covers, so *)
(* a violation of this is a violation of the claim.                        *)
(***************************************************************************)
EitherSpelling == TextBearing \cup {"text.span", "text.h"}

C3_UnrecognizedTextDiscarded ==
    [][(/\ Handles("Text")
        /\ stack # <<>>
        /\ \A k \in 1..Len(stack) : stack[k] \notin EitherSpelling)
          => text_content' = text_content]_vars

(***************************************************************************)
(* C4: a start event of text:p, text:h or text:span sets the flag, so a    *)
(* text run directly inside a text:h or text:span is appended, and the     *)
(* heading of the test document is a sentence of the list parse_file       *)
(* returns.                                                                *)
(***************************************************************************)
C4_StartSetsFlag ==
    /\ (pc = "extract" /\ doc # <<>> /\ LastEvent.kind = "Start"
            /\ LastEvent.name \in TextBearing)
          => in_text_element
    /\ (pc = "extract" /\ Len(doc) >= 2 /\ LastEvent.kind = "Text"
            /\ doc[Len(doc) - 1].kind = "Start"
            /\ doc[Len(doc) - 1].name \in TextBearing
            /\ ~UnescapeFails(LastEvent.raw))
          => Contains(text_content, Unescape(TrimText(LastEvent.raw)))
    /\ (Extracted(DocHeading) /\ Returned)
          => \E k \in 1..Len(result.sentences) : result.sentences[k] = RunHeading

(***************************************************************************)
(* C5: every end event of text:p or text:h appends exactly one space and   *)
(* clears the flag, every end event of text:span appends nothing, so the   *)
(* extractor adds as many separator spaces as there are paragraph and      *)
(* heading end events.                                                     *)
(***************************************************************************)
C5_EndAppendsSeparator ==
    [][Handles("End") =>
          LET n == doc'[Len(doc')].name
          IN  /\ n \in {"text:p", "text:h"} =>
                     /\ text_content' = Append(text_content, " ")
                     /\ in_text_element' = FALSE
              /\ n = "text:span" => text_content' = text_content]_vars

(***************************************************************************)
(* C6: a text event that arrives while the flag is true is appended after  *)
(* unescaping with its leading and trailing whitespace kept.               *)
(***************************************************************************)
C6_TextAppendedVerbatim ==
    [][(/\ Handles("Text")
        /\ in_text_element
        /\ TrimText(doc'[Len(doc')].raw) # <<>>
        /\ ~UnescapeFails(doc'[Len(doc')].raw))
          => text_content' = text_content \o Unescape(doc'[Len(doc')].raw)]_vars

(***************************************************************************)
(* C10: every failure inside parse_file ends the call with that first      *)
(* error: the failing step is the last step that ran, it is the only       *)
(* failure, the call returned Err of its error and no sentence list, and   *)
(* a call that returned Ok met no failure.                                 *)
(***************************************************************************)
C10_FirstErrorEndsCall ==
    /\ failures # <<>> =>
           /\ pc = "failed"
           /\ Len(failures) = 1
           /\ ran[Len(ran)] = failures[1].step
           /\ result = ErrResult(failures[1].error)
           /\ result.sentences = <<>>
    /\ pc = "failed" => failures # <<>>
    /\ result.kind = "Ok" => failures = <<>>

\* the event reader failed after text had been accumulated
C10_Witness ==
    /\ pc = "failed"
    /\ failures = <<[step |-> "extract", error |-> "Xml"]>>
    /\ text_content # <<>>
    /\ result.kind = "Err"

(***************************************************************************)
(* C11: a malformed markup stream makes the call fail with a markup error  *)
(* and is never silently truncated: an error of the reader fails the call  *)
(* with the markup error, and when the reader reports the end of the input *)
(* while an element is still open the call has failed too, so no call      *)
(* returns Ok from a document with an element left open.                   *)
(***************************************************************************)
C11_MalformedMarkupFails ==
    /\ (doc # <<>> /\ LastEvent.kind = "Err") =>
           pc = "failed" /\ result = ErrResult("Xml")
    /\ (doc # <<>> /\ LastEvent.kind = "Eof" /\ stack # <<>>) =>
           pc = "failed" /\ result.kind = "Err"
    /\ Returned => stack = <<>>

C13_NormalizeIdempotent ==
    LET n == CleanText(text)
    IN  /\ pc = "clean" =>
               /\ CleanText(n) = n
               /\ Trim(n) = n
               /\ \A k \in 1..Len(n) : n[k] # "\n"
               /\ \A k \in 1..(Len(n) - 1) :
                      ~(IsWhitespace(n[k]) /\ IsWhitespace(n[k + 1]))
               /\ SplitIntoSentences(n) = SplitIntoSentences(text)
        /\ pc = "split" => CleanText(cleaned_text) = cleaned_text
        /\ Returned => result.sentences = SplitIntoSentences(n)

\* a text with whitespace around it and a run of whitespace inside it has
\* been split into sentences
C13_Witness ==
    /\ Returned
    /\ Trim(text) # text
    /\ Len(CleanText(text)) < Len(Trim(text))
    /\ \E k \in 1..Len(text) : text[k] = "\n"
    /\ Len(result.sentences) >= 2

(***************************************************************************)
(* C15: the flag is one boolean and not a nesting depth.  The end event of *)
(* text:span clears it and appends nothing, whatever is still open; it     *)
(* becomes true again only by a start event the extractor recognizes; and  *)
(* a text run read while it is false does not reach the output, so the     *)
(* text that follows an inline run inside its still-open paragraph is      *)
(* ignored.                                                                *)
(***************************************************************************)
C15_FlagIsOneBoolean ==
    [][/\ (Handles("End") /\ doc'[Len(doc')].name = "text:span") =>
              ~in_text_element' /\ text_content' = text_content
       /\ (pc = "extract" /\ ~in_text_element /\ in_text_element') =>
              Handles("Start") /\ StartSetsFlag(doc'[Len(doc')].name)
       /\ (Handles("Text") /\ ~in_text_element) =>
              text_content' = text_content]_vars

\* the "." that follows </text:span> in the second paragraph of the test
\* markup has been read with the paragraph open and the flag false, and has
\* not been appended
C15_Witness ==
    /\ scripted /\ pc = "extract"
    /\ doc = SubSeq(DocTwoParagraphs, 1, 9)
    /\ LastEvent = TextTok(RunDot)
    /\ doc[Len(doc) - 1] = EndTok("text:span")
    /\ stack = <<"text:p">>
    /\ ~in_text_element
    /\ text_content[Len(text_content)] # "."

(***************************************************************************)
(* One parser used for several documents.  OdtParser holds the compiled    *)
(* regular expression and nothing else (main.rs:9-11) and parse_file takes *)
(* &self, so a further call starts from the locals it declares itself.     *)
(***************************************************************************)
\* how the call that has just ended is remembered
Outcome == [kind |-> result.kind, flag |-> in_text_element]

ParseAgainKeepFlag ==
    /\ pc \in {"done", "failed"}
    /\ Len(calls) + 1 < MaxCalls
    /\ calls' = Append(calls, Outcome)
    /\ pc' = "open"
    /\ rest' \in FixedDocs
    /\ doc' = <<>>
    /\ stack' = <<>>
    /\ text' = <<>>
    /\ cleaned_text' = <<>>
    /\ parts' = <<>>
    /\ i' = 0
    /\ sentences' = <<>>
    /\ result' = NoResult
    /\ ran' = <<>>
    /\ failures' = <<>>
    /\ UNCHANGED <<scripted, in_text_element, text_content, current_index,
                   total_sentences, has_changes, input, eof, new_text,
                   lines, current_line, words, width>>

\* main.rs:20, parse_file is called again; main.rs:261-266 and 302-309, the
\* locals of the new call
ParseAgain ==
    /\ pc \in {"done", "failed"}
    /\ Len(calls) + 1 < MaxCalls
    /\ calls' = Append(calls, Outcome)
    /\ pc' = "open"
    /\ rest' \in FixedDocs
    /\ doc' = <<>>
    /\ stack' = <<>>
    /\ in_text_element' = FALSE
    /\ text_content' = <<>>
    /\ text' = <<>>
    /\ cleaned_text' = <<>>
    /\ parts' = <<>>
    /\ i' = 0
    /\ sentences' = <<>>
    /\ result' = NoResult
    /\ ran' = <<>>
    /\ failures' = <<>>
    /\ UNCHANGED <<scripted, current_index, total_sentences, has_changes,
                   input, eof, new_text, lines, current_line, words, width>>

\* a parser whose documents are the fixed documents
InitReuse == Init /\ scripted

NextReuse == Next \/ ParseAgain

SpecReuse == InitReuse /\ [][NextReuse]_vars

(***************************************************************************)
(* C14: the parser keeps no document-specific state between calls.  The    *)
(* flag is false and the accumulator empty when the extraction of a call   *)
(* starts; in every call, the first as well as one that follows a call     *)
(* that ended with the flag true or with an error, the flag, the           *)
(* accumulator and the outcome are what the events of this call alone      *)
(* give, by one function of the event stream.                              *)
(***************************************************************************)
FoldStart == [flag |-> FALSE, text |-> <<>>, failed |-> FALSE]

\* one event applied to the state of a fresh extraction
FoldEvent(st, ev) ==
    IF st.failed THEN st
    ELSE CASE ev.kind = "Start" ->
                [st EXCEPT !.flag = StartSetsFlag(ev.name) \/ st.flag]
           [] ev.kind = "End" ->
                [st EXCEPT !.flag = IF EndIsBlock(ev.name) \/ EndIsSpan(ev.name)
                                    THEN FALSE ELSE st.flag,
                           !.text = IF EndIsBlock(ev.name)
                                    THEN Append(st.text, " ") ELSE st.text]
           [] ev.kind = "Text" ->
                LET e == TrimText(ev.raw)
                IN  IF e = <<>> \/ ~st.flag THEN st
                    ELSE IF UnescapeFails(e) THEN [st EXCEPT !.failed = TRUE]
                    ELSE [st EXCEPT !.text = st.text \o Unescape(e)]
           [] ev.kind = "Err" -> [st EXCEPT !.failed = TRUE]
           [] OTHER -> st

RECURSIVE FoldEvents(_)
FoldEvents(d) ==
    IF d = <<>> THEN FoldStart
    ELSE FoldEvent(FoldEvents(SubSeq(d, 1, Len(d) - 1)), d[Len(d)])

C14_NoStateBetweenCalls ==
    /\ (pc = "extract" /\ doc = <<>>) => ~in_text_element /\ text_content = <<>>
    /\ pc \in {"extract", "clean", "split", "loop", "done"} =>
           /\ in_text_element = FoldEvents(doc).flag
           /\ text_content = FoldEvents(doc).text
           /\ ~FoldEvents(doc).failed
    /\ Returned => result.sentences = SplitIntoSentences(FoldEvents(doc).text)
    /\ (pc = "failed" /\ failures[1].step = "extract") => FoldEvents(doc).failed

\* a third call has returned sentences after a call that ended with the flag
\* true and a call that ended with an error
C14_Witness ==
    /\ Len(calls) = 2
    /\ \E k \in 1..2 : calls[k].flag
    /\ \E k \in 1..2 : calls[k].kind = "Err"
    /\ Returned
    /\ Len(result.sentences) >= 2

(***************************************************************************)
(* interactive_mode, main.rs:36-129.  A line of standard input is the      *)
(* sequence of its characters, line break included; a read at the end of   *)
(* the input returns no bytes, the empty line.                             *)
(***************************************************************************)
UpperCase ==
    <<"A", "B", "C", "D", "E", "F", "G", "H", "I", "J", "K", "L", "M",
      "N", "O", "P", "Q", "R", "S", "T", "U", "V", "W", "X", "Y", "Z">>

LowerCase ==
    <<"a", "b", "c", "d", "e", "f", "g", "h", "i", "j", "k", "l", "m",
      "n", "o", "p", "q", "r", "s", "t", "u", "v", "w", "x", "y", "z">>

\* char::to_lowercase on the characters of the model
Lower(c) ==
    IF \E k \in 1..Len(UpperCase) : UpperCase[k] = c
    THEN LowerCase[CHOOSE k \in 1..Len(UpperCase) : UpperCase[k] = c]
    ELSE c

\* str::to_lowercase
ToLowercase(s) == [k \in 1..Len(s) |-> Lower(s[k])]

\* main.rs:221, input.trim().to_lowercase()
GetUserInput(line) == ToLowercase(Trim(line))

Digits == <<"0", "1", "2", "3", "4", "5", "6", "7", "8", "9">>

\* char::is_ascii_digit
IsAsciiDigit(c) == \E k \in 1..Len(Digits) : Digits[k] = c

DigitOf(c) == (CHOOSE k \in 1..Len(Digits) : Digits[k] = c) - 1

\* main.rs:109, num_str.chars().all(|c| c.is_ascii_digit())
AllDigits(s) == \A k \in 1..Len(s) : IsAsciiDigit(s[k])

RECURSIVE StripZeros(_)
StripZeros(s) ==
    IF s # <<>> /\ Head(s) = "0" THEN StripZeros(Tail(s)) ELSE s

RECURSIVE DigitsValue(_)
DigitsValue(s) ==
    IF s = <<>> THEN 0
    ELSE 10 * DigitsValue(SubSeq(s, 1, Len(s) - 1)) + DigitOf(s[Len(s)])

\* usize::MAX of a 64-bit build, 18446744073709551615
UsizeMaxDigits ==
    <<"1", "8", "4", "4", "6", "7", "4", "4", "0", "7", "3", "7", "0", "9",
      "5", "5", "1", "6", "1", "5">>

\* a and b have the same length and a is the greater numeral
GreaterNumeral(a, b) ==
    \E k \in 1..Len(a) :
        /\ \A m \in 1..(k - 1) : a[m] = b[m]
        /\ DigitOf(a[k]) > DigitOf(b[k])

\* main.rs:110, num_str.parse::<usize>() of a string of digits: an error for
\* the empty string and for a number above usize::MAX.  The value is kept
\* for numbers of up to nine digits; a longer number that parses is large.
ParseUsize(s) ==
    LET d == StripZeros(s)
    IN  [ok |-> /\ s # <<>>
                /\ \/ Len(d) < Len(UsizeMaxDigits)
                   \/ Len(d) = Len(UsizeMaxDigits) /\ ~GreaterNumeral(d, UsizeMaxDigits),
         large |-> Len(d) > 9,
         value |-> IF Len(d) > 9 THEN 0 ELSE DigitsValue(d)]

\* main.rs:62, 73, 82, 93, 97, 101, 105: the patterns of the match
IsNext(c) == c \in {<<"n">>, <<"n", "e", "x", "t">>, <<>>}
IsPrev(c) == c \in {<<"p">>, <<"p", "r", "e", "v">>,
                    <<"p", "r", "e", "v", "i", "o", "u", "s">>}
IsEdit(c) == c \in {<<"e">>, <<"e", "d", "i", "t">>}
IsFirst(c) == c \in {<<"f">>, <<"f", "i", "r", "s", "t">>}
IsLast(c) == c \in {<<"l">>, <<"l", "a", "s", "t">>}
IsHelp(c) == c \in {<<"h">>, <<"h", "e", "l", "p">>}
IsQuit(c) == c \in {<<"q">>, <<"q", "u", "i", "t">>}

\* an arm before main.rs:109 takes the command
IsWord(c) ==
    IsNext(c) \/ IsPrev(c) \/ IsEdit(c) \/ IsFirst(c) \/ IsLast(c)
        \/ IsHelp(c) \/ IsQuit(c)

\* main.rs:109
IsNumber(c) == ~IsWord(c) /\ AllDigits(c)

\* main.rs:63
CanGoNextInclusive(index, total) == index <= total - 1

CanGoNext(index, total) == index < total - 1

\* main.rs:74
CanGoPrev(index) == index > 0

NumberInRangeFromZero(p, total) == ~p.large /\ p.value >= 0 /\ p.value <= total

\* main.rs:111
NumberInRange(p, total) == ~p.large /\ p.value > 0 /\ p.value <= total

CaseSensitiveCancel(current_sentence, reply) ==
    LET trimmed == Trim(reply)
    IN  IF trimmed = <<>> THEN current_sentence
        ELSE IF trimmed = <<"c", "a", "n", "c", "e", "l">> THEN current_sentence
        ELSE trimmed

\* main.rs:243-254, what edit_sentence returns for the line it has read
EditSentence(current_sentence, reply) ==
    LET trimmed == Trim(reply)
    IN  IF trimmed = <<>> THEN current_sentence
        ELSE IF ToLowercase(trimmed) = <<"c", "a", "n", "c", "e", "l">>
             THEN current_sentence
        ELSE trimmed

(***************************************************************************)
(* The sentence lists and the lines of input of the model.                 *)
(***************************************************************************)
SentenceA == <<"a", ".">>
SentenceB == <<"b", "!">>
SentenceNew == <<"N", "e", "w", ".">>

\* the lists parse_file may hand over: main.rs:358 does not call
\* interactive_mode with an empty list, a test or another caller may
SentenceLists ==
    UNION {[1..n -> {SentenceA, SentenceB}] : n \in 0..MaxSentences}

\* a number no usize holds
TooLargeNumber == [k \in 1..Len(UsizeMaxDigits) |-> "9"]

NumberLines ==
    {<<Digits[k], "\n">> : k \in 1..Len(Digits)}
        \cup {<<"0", "2", "\n">>, <<" ", "1", " ", "\n">>,
              UsizeMaxDigits \o <<"\n">>, TooLargeNumber \o <<"\n">>}

WordLines ==
    { <<"\n">>, <<"n", "\n">>, <<"N", "e", "x", "t", "\n">>,
      <<"p", "\n">>, <<"p", "r", "e", "v", "\n">>,
      <<"P", "R", "E", "V", "I", "O", "U", "S", "\n">>,
      <<"e", "\n">>, <<"e", "d", "i", "t", "\n">>,
      <<"f", "\n">>, <<"f", "i", "r", "s", "t", "\n">>,
      <<"l", "\n">>, <<"l", "a", "s", "t", "\n">>,
      <<"h", "\n">>, <<"h", "e", "l", "p", "\n">>,
      <<"q", "\n">>, <<" ", "Q", "u", "i", "t", " ", "\n">> }

UnknownLines ==
    { <<"x", "\n">>, <<"-", "1", "\n">>, <<"+", "1", "\n">>,
      <<"1", " ", "2", "\n">>, <<"n", "n", "\n">> }

CommandLines == WordLines \cup NumberLines \cup UnknownLines

\* what the user may type at the prompt of edit_sentence
ReplyLines ==
    { <<"\n">>, <<" ", " ", "\n">>,
      <<"c", "a", "n", "c", "e", "l", "\n">>,
      <<"C", "a", "n", "c", "e", "l", "\n">>,
      <<" ", "C", "A", "N", "C", "E", "L", " ", "\n">>,
      <<" ">> \o SentenceNew \o <<" ", "\n">>,
      SentenceA \o <<"\n">> }

\* what the user may type where any key continues
AnyLines == {<<"\n">>}

\* what io::stdin().read_line may leave in the buffer at the prompt: a line,
\* or nothing at the end of the input
PromptLines == CommandLines \cup {<<>>}

\* the lines each arm of the match at main.rs:61 takes
NextLines == {line \in PromptLines : IsNext(GetUserInput(line))}
PrevLines == {line \in PromptLines : IsPrev(GetUserInput(line))}
EditLines == {line \in PromptLines : IsEdit(GetUserInput(line))}
FirstLines == {line \in PromptLines : IsFirst(GetUserInput(line))}
LastLines == {line \in PromptLines : IsLast(GetUserInput(line))}
HelpLines == {line \in PromptLines : IsHelp(GetUserInput(line))}
QuitLines == {line \in PromptLines : IsQuit(GetUserInput(line))}
DigitLines == {line \in PromptLines : IsNumber(GetUserInput(line))}
OtherLines ==
    {line \in PromptLines :
        ~IsWord(GetUserInput(line)) /\ ~AllDigits(GetUserInput(line))}

\* io::stdin().read_line: one of the lines while there is input, no bytes at
\* the end of the input and from then on
ReadFrom(choices) == IF eof THEN choices \cap {<<>>} ELSE choices

parseVars == <<scripted, rest, doc, stack, in_text_element, text_content, text,
               cleaned_text, parts, i, result, ran, failures, calls>>

wrapVars == <<lines, current_line, words, width>>

\* main.rs:59, get_user_input has returned Ok for this line
ReadCommand(line) ==
    /\ input' = GetUserInput(line)
    /\ UNCHANGED <<parseVars, wrapVars>>

\* main.rs:40-50
EnterInteractive ==
    /\ pc = "enter"
    /\ IF sentences = <<>>
       THEN /\ pc' = "exited"
            /\ UNCHANGED <<current_index, total_sentences, has_changes, eof>>
       ELSE \E any \in ReadFrom(AnyLines \cup {<<>>}) :
                /\ current_index' = 0
                /\ total_sentences' = Len(sentences)
                /\ has_changes' = FALSE
                /\ eof' = (eof \/ any = <<>>)
                /\ pc' = "display"
    /\ UNCHANGED <<sentences, input, new_text, parseVars, wrapVars>>

\* main.rs:53-57; an index outside the list panics.  The locals of the
\* iteration before, its input and the reply edit_sentence read, are gone.
DisplaySentence ==
    /\ pc = "display"
    /\ pc' = IF current_index \in 0..(Len(sentences) - 1) THEN "read" ELSE "panicked"
    /\ input' = <<>>
    /\ new_text' = <<>>
    /\ UNCHANGED <<sentences, current_index, total_sentences, has_changes,
                   eof, parseVars, wrapVars>>

\* main.rs:59, io::stdin().read_line fails and ? returns the error
ReadFails ==
    /\ pc = "read"
    /\ ~eof
    /\ pc' = "aborted"
    /\ UNCHANGED <<sentences, current_index, total_sentences, has_changes,
                   input, eof, new_text, parseVars, wrapVars>>

\* main.rs:62-72
CmdNext ==
    /\ pc = "read"
    /\ \E line \in ReadFrom(NextLines) :
           /\ ReadCommand(line)
           /\ eof' = (eof \/ line = <<>>)
    /\ current_index' = IF CanGoNext(current_index, total_sentences)
                        THEN current_index + 1
                        ELSE current_index
    /\ pc' = "display"
    /\ UNCHANGED <<sentences, total_sentences, has_changes, new_text>>

\* main.rs:73-81
CmdPrev ==
    /\ pc = "read"
    /\ \E line \in ReadFrom(PrevLines) :
           /\ ReadCommand(line)
    /\ current_index' = IF CanGoPrev(current_index)
                        THEN current_index - 1
                        ELSE current_index
    /\ pc' = "display"
    /\ UNCHANGED <<sentences, total_sentences, has_changes, eof, new_text>>

\* main.rs:82-92 with edit_sentence, main.rs:224-255
CmdEdit ==
    /\ pc = "read"
    /\ \E line \in ReadFrom(EditLines) :
           /\ ReadCommand(line)
    /\ \/ /\ pc' = "aborted"
          /\ UNCHANGED <<sentences, has_changes, eof, new_text>>
       \/ \E reply \in ReadFrom(ReplyLines \cup {<<>>}), any \in ReadFrom(AnyLines \cup {<<>>}) :
              LET new_sentence == EditSentence(sentences[current_index + 1], reply)
                  changed == new_sentence # sentences[current_index + 1]
              IN  /\ sentences' =
                         IF changed
                         THEN [sentences EXCEPT ![current_index + 1] = new_sentence]
                         ELSE sentences
                  /\ has_changes' = (changed \/ has_changes)
                  /\ new_text' = reply
                  /\ eof' = (eof \/ reply = <<>> \/ (changed /\ any = <<>>))
                  /\ pc' = "display"
    /\ UNCHANGED <<current_index, total_sentences>>

\* main.rs:93-96
CmdFirst ==
    /\ pc = "read"
    /\ \E line \in ReadFrom(FirstLines) :
           /\ ReadCommand(line)
    /\ current_index' = 0
    /\ pc' = "display"
    /\ UNCHANGED <<sentences, total_sentences, has_changes, eof, new_text>>

\* main.rs:97-100
CmdLast ==
    /\ pc = "read"
    /\ \E line \in ReadFrom(LastLines) :
           /\ ReadCommand(line)
    /\ current_index' = total_sentences - 1
    /\ pc' = "display"
    /\ UNCHANGED <<sentences, total_sentences, has_changes, eof, new_text>>

\* main.rs:101-104 with show_instructions, main.rs:135-151
CmdHelp ==
    /\ pc = "read"
    /\ \E line \in ReadFrom(HelpLines) :
           /\ ReadCommand(line)
    /\ \E any \in ReadFrom(AnyLines \cup {<<>>}) : eof' = (eof \/ any = <<>>)
    /\ pc' = "display"
    /\ UNCHANGED <<sentences, current_index, total_sentences, has_changes, new_text>>

\* main.rs:105-108 and 128
CmdQuit ==
    /\ pc = "read"
    /\ \E line \in ReadFrom(QuitLines) :
           /\ ReadCommand(line)
    /\ pc' = "exited"
    /\ UNCHANGED <<sentences, current_index, total_sentences, has_changes, eof,
                   new_text>>

\* main.rs:109-121
CmdNumber ==
    /\ pc = "read"
    /\ \E line \in ReadFrom(DigitLines) :
           /\ ReadCommand(line)
           /\ LET p == ParseUsize(GetUserInput(line))
              IN  current_index' =
                      IF p.ok /\ NumberInRange(p, total_sentences)
                      THEN p.value - 1
                      ELSE current_index
    /\ pc' = "display"
    /\ UNCHANGED <<sentences, total_sentences, has_changes, eof, new_text>>

\* main.rs:122-124
CmdUnknown ==
    /\ pc = "read"
    /\ \E line \in ReadFrom(OtherLines) :
           /\ ReadCommand(line)
    /\ pc' = "display"
    /\ UNCHANGED <<sentences, current_index, total_sentences, has_changes, eof,
                   new_text>>

\* interactive_mode called with each sentence list
InitInteractive ==
    /\ pc = "enter"
    /\ sentences \in SentenceLists
    /\ scripted = TRUE
    /\ rest = <<>>
    /\ doc = <<>>
    /\ stack = <<>>
    /\ in_text_element = FALSE
    /\ text_content = <<>>
    /\ text = <<>>
    /\ cleaned_text = <<>>
    /\ parts = <<>>
    /\ i = 0
    /\ result = NoResult
    /\ ran = <<>>
    /\ failures = <<>>
    /\ OtherIdle

NextInteractive ==
    \/ EnterInteractive
    \/ DisplaySentence
    \/ ReadFails
    \/ CmdNext
    \/ CmdPrev
    \/ CmdEdit
    \/ CmdFirst
    \/ CmdLast
    \/ CmdHelp
    \/ CmdQuit
    \/ CmdNumber
    \/ CmdUnknown

SpecInteractive == InitInteractive /\ [][NextInteractive]_vars

\* the program is the one process there is: while a statement can run, one
\* runs
SpecInteractiveFair ==
    InitInteractive /\ [][NextInteractive]_vars /\ WF_vars(NextInteractive)

(***************************************************************************)
(* C16: in interactive_mode, after any sequence of commands, current_index *)
(* is within 0..total_sentences-1 and total_sentences is the length of the *)
(* sentence list, which is not empty: sentences[current_index] is never    *)
(* out of bounds and no index arithmetic goes below zero.                  *)
(***************************************************************************)
C16_IndexInBounds ==
    /\ pc # "panicked"
    /\ pc \in {"display", "read", "aborted"} =>
           /\ total_sentences = Len(sentences)
           /\ total_sentences - 1 >= 0
           /\ current_index \in 0..(total_sentences - 1)
    /\ (pc = "exited" /\ sentences # <<>>) =>
           /\ total_sentences = Len(sentences)
           /\ current_index \in 0..(total_sentences - 1)

\* previous has been asked for at the first sentence of an edited list of
\* MaxSentences sentences
C16_Witness ==
    /\ pc = "display"
    /\ IsPrev(input)
    /\ current_index = 0
    /\ has_changes
    /\ total_sentences = MaxSentences

(***************************************************************************)
(* C17: a numeric command k with 1 <= k <= total_sentences sets            *)
(* current_index to k-1 and leaves the list alone; the number 0, a number  *)
(* above total_sentences, a number too large to parse, next on the last    *)
(* sentence, previous on the first sentence and an unknown command leave   *)
(* current_index and the sentence list unchanged.                          *)
(***************************************************************************)
\* the loop has read a command and handled it
Handled == pc = "read" /\ pc' = "display"

Numeral(k) == <<Digits[k + 1]>>

NothingMoves == current_index' = current_index /\ sentences' = sentences

C17_NumberJumps ==
    [][Handled =>
          /\ \A k \in 1..9 :
                 input' \in {Numeral(k), <<"0">> \o Numeral(k)} =>
                     IF k <= total_sentences
                     THEN current_index' = k - 1 /\ sentences' = sentences
                     ELSE NothingMoves
          /\ input' \in {Numeral(0), UsizeMaxDigits, TooLargeNumber} => NothingMoves
          /\ (IsNext(input') /\ current_index = total_sentences - 1) => NothingMoves
          /\ (IsPrev(input') /\ current_index = 0) => NothingMoves
          /\ input' \in {GetUserInput(line) : line \in UnknownLines} => NothingMoves
      ]_vars

\* the command 3 has brought the viewer to the last of three sentences
C17_Witness ==
    /\ pc = "display"
    /\ input = Numeral(3)
    /\ total_sentences = 3
    /\ current_index = 2
    /\ sentences = <<SentenceA, SentenceB, SentenceA>>
    /\ ~has_changes

(***************************************************************************)
(* C18: an edit command changes at most the sentence at current_index: it  *)
(* changes neither current_index nor the number of sentences nor any other *)
(* sentence, also when reading the reply fails; when the reply is empty    *)
(* after trimming or is cancel in any letter case, the list and            *)
(* has_changes are as they were.                                           *)
(***************************************************************************)
\* the loop has read an edit command and edit_sentence has returned
Edited == pc = "read" /\ IsEdit(input') /\ pc' \in {"display", "aborted"}

Cancel == <<"c", "a", "n", "c", "e", "l">>

C18_EditChangesOneSentence ==
    [][Edited =>
          /\ current_index' = current_index
          /\ total_sentences' = total_sentences
          /\ Len(sentences') = Len(sentences)
          /\ \A k \in 1..Len(sentences) :
                 k # current_index + 1 => sentences'[k] = sentences[k]
          /\ (Trim(new_text') = <<>> \/ ToLowercase(Trim(new_text')) = Cancel) =>
                 sentences' = sentences /\ has_changes' = has_changes
      ]_vars

\* the reply " CANCEL " to the edit of the second of two sentences has left
\* the list as it was, with no change recorded
C18_Witness ==
    /\ pc = "display"
    /\ IsEdit(input)
    /\ new_text = <<" ", "C", "A", "N", "C", "E", "L", " ", "\n">>
    /\ sentences = <<SentenceA, SentenceB>>
    /\ current_index = 1
    /\ ~has_changes

(***************************************************************************)
(* C19: interactive_mode terminates on every finite input: once the input  *)
(* is exhausted and every further read returns no bytes, the command loop  *)
(* eventually ends, by returning or by failing.                            *)
(***************************************************************************)
C19_TerminatesAtEndOfInput ==
    eof ~> (pc \in {"exited", "aborted", "panicked"})

(***************************************************************************)
(* wrap_text, main.rs:180-216.  The length of a string is its length in    *)
(* bytes; the characters of the model are one byte each.                   *)
(***************************************************************************)
\* main.rs:169 and 231, the width display_sentence and edit_sentence wrap to
DisplayWidth == 59

\* the end of the word that starts s: the index of its last character
WordEnd(s) ==
    IF \E k \in 1..Len(s) : IsWhitespace(s[k])
    THEN (CHOOSE k \in 1..Len(s) :
              /\ IsWhitespace(s[k])
              /\ \A m \in 1..(k - 1) : ~IsWhitespace(s[m])) - 1
    ELSE Len(s)

\* main.rs:184, text.split_whitespace()
RECURSIVE SplitWhitespace(_)
SplitWhitespace(s) ==
    LET t == TrimStart(s)
    IN  IF t = <<>> THEN <<>>
        ELSE <<SubSeq(t, 1, WordEnd(t))>>
                 \o SplitWhitespace(SubSeq(t, WordEnd(t) + 1, Len(t)))

\* a word of 2 * 59 + 1 bytes
LongWord == [k \in 1..(2 * DisplayWidth + 1) |-> "a"]

WrapChars == {"a", "b", " "}

\* the calls of wrap_text: every text within the bounds at every width
\* within the bounds, and the long word at the width of the display
WrapCalls ==
    {[text |-> t, width |-> w] : t \in SeqsUpTo(WrapChars, MaxWrapLen), w \in 1..MaxWidth}
        \cup {[text |-> LongWord, width |-> DisplayWidth]}

\* main.rs:185-204, one iteration of the loop over the words
WrapWord ==
    /\ pc = "wrap"
    /\ words # <<>>
    /\ LET word == Head(words)
       IN  IF Len(current_line) + Len(word) + 1 <= width
           THEN /\ current_line' =
                       (IF current_line # <<>> THEN Append(current_line, " ")
                        ELSE current_line) \o word
                /\ lines' = lines
           ELSE LET flushed == IF current_line # <<>>
                               THEN Append(lines, current_line)
                               ELSE lines
                IN  IF Len(word) <= width
                    THEN /\ lines' = flushed
                         /\ current_line' = word
                    ELSE /\ lines' = Append(flushed, SubSeq(word, 1, width))
                         /\ current_line' = SubSeq(word, width + 1, Len(word))
    /\ words' = Tail(words)
    /\ UNCHANGED <<pc, width, sentences, current_index, total_sentences,
                   has_changes, input, eof, new_text, parseVars>>

\* main.rs:207-215
WrapReturn ==
    /\ pc = "wrap"
    /\ words = <<>>
    /\ LET pushed == IF current_line # <<>>
                     THEN Append(lines, current_line)
                     ELSE lines
       IN  lines' = IF pushed = <<>> THEN <<<<>>>> ELSE pushed
    /\ pc' = "wrapped"
    /\ UNCHANGED <<current_line, words, width, sentences, current_index,
                   total_sentences, has_changes, input, eof, new_text, parseVars>>

\* main.rs:180-184, wrap_text called on each text and width
InitWrap ==
    /\ pc = "wrap"
    /\ \E call \in WrapCalls :
           /\ text = call.text
           /\ width = call.width
           /\ words = SplitWhitespace(call.text)
    /\ lines = <<>>
    /\ current_line = <<>>
    /\ scripted = TRUE
    /\ rest = <<>>
    /\ doc = <<>>
    /\ stack = <<>>
    /\ in_text_element = FALSE
    /\ text_content = <<>>
    /\ cleaned_text = <<>>
    /\ parts = <<>>
    /\ i = 0
    /\ sentences = <<>>
    /\ result = NoResult
    /\ ran = <<>>
    /\ failures = <<>>
    /\ calls = <<>>
    /\ current_index = 0
    /\ total_sentences = 0
    /\ has_changes = FALSE
    /\ input = <<>>
    /\ eof = FALSE
    /\ new_text = <<>>

NextWrap == WrapWord \/ WrapReturn

SpecWrap == InitWrap /\ [][NextWrap]_vars

(***************************************************************************)
(* C20: wrap_text returns at least one line, every line it returns is at   *)
(* most width bytes long, also for a text with a word longer than width or *)
(* longer than twice the width, and the words of the lines put together    *)
(* are the words of the text put together, in order.                       *)
(***************************************************************************)
\* the strings of a list put together
RECURSIVE Joined(_)
Joined(ss) == IF ss = <<>> THEN <<>> ELSE Head(ss) \o Joined(Tail(ss))

\* the words of the lines, in order
RECURSIVE LineWords(_)
LineWords(ls) ==
    IF ls = <<>> THEN <<>> ELSE SplitWhitespace(Head(ls)) \o LineWords(Tail(ls))

C20_LinesFitWidth ==
    pc = "wrapped" =>
        /\ Len(lines) >= 1
        /\ \A k \in 1..Len(lines) : Len(lines[k]) <= width
        /\ Joined(LineWords(lines)) = Joined(SplitWhitespace(text))

====
